---------------------------- MODULE Spec2Model ----------------------------
(***************************************************************************)
(* superfork: bulk fork / sync of GitHub repositories.                     *)
(*                                                                         *)
(* Two state machines are modelled:                                        *)
(*   SpecGC  the retry wrapper graceful_calling (src/superfork/utils.py),  *)
(*           a generator driven by contextlib's context-manager protocol;  *)
(*   Spec    the command main with user_clone and fork_or_sync             *)
(*           (src/superfork/fork.py) against a small remote service.       *)
(* Strings that the code splits or joins are sequences of one-character    *)
(* strings, so that split("/") and "/".join are computed, not assumed.     *)
(***************************************************************************)
EXTENDS Integers, Sequences, FiniteSets, TLC

VARIABLES
    \* ---- graceful_calling -------------------------------------------
    gc_pc,          \* "loop" | "body" | "done": where the generator stands
    phase,          \* "enter" | "throw": the protocol call driving it
    i,              \* loop index of `for i in range(max_tries)`
    max_tries,      \* argument
    is_mutating,    \* argument (seconds of post-success pause, 0 = none)
    fn_calls,       \* number of executions of fn in this invocation
    fn_ok,          \* number of executions of fn that returned
    ok_at,          \* fn_calls when fn first returned (0: not yet)
    yields,         \* number of times the result was delivered (yield)
    last_err,       \* error raised by the most recent failed execution of fn
    outcome,        \* what the with statement ended with
    waits,          \* arguments of the sleep calls, in order
    now,            \* time.time()
    \* ---- main / user_clone / fork_or_sync ------------------------------
    pc,             \* position of the single thread
    remote,         \* full names of the repositories that exist remotely
    source,         \* CLI argument SOURCE (a tuple of strings)
    to,             \* CLI argument TO
    flags,          \* CLI options
    k,              \* index of the source argument main is at
    queue,          \* user_clone: filtered_repos still to process
    fs,             \* fork_or_sync's frame (arguments and locals)
    calls,          \* mutating remote calls issued, in order
    console,        \* warnings, reports and decisions printed, in order
    faults,         \* remote calls that have failed so far
    raised,         \* the exception that left main ("none": none)
    slept,          \* seconds of the wait in progress (-1: none)
    \* ---- one call of a function without state ---------------------------
    p_pc,           \* "idle" | "call" | "done"
    p_in,           \* its arguments
    p_out           \* its result

gcvars == <<gc_pc, phase, i, max_tries, is_mutating, fn_calls, fn_ok, ok_at, yields,
            last_err, outcome, waits, now>>
mainvars == <<pc, remote, source, to, flags, k, queue, fs, calls, console,
              faults, raised, slept>>
purevars == <<p_pc, p_in, p_out>>
vars == <<gcvars, mainvars, purevars>>

---------------------------------------------------------------------------
(* Bounds of the model *)

\* largest max_tries tried
MaxTries == 3
\* largest number of SOURCE arguments
MaxSources == 2
\* largest number of remote calls that fail in one run of main
MaxFaults == 2
\* the clock when an invocation starts
StartTime == 1000

---------------------------------------------------------------------------
(* Strings *)

Slash == "/"

\* s.split("/") for a sequence of characters s
RECURSIVE SplitFrom(_, _, _)
SplitFrom(s, n, cur) ==
    IF n > Len(s) THEN <<cur>>
    ELSE IF s[n] = Slash THEN <<cur>> \o SplitFrom(s, n + 1, <<>>)
    ELSE SplitFrom(s, n + 1, Append(cur, s[n]))

Split(s) == SplitFrom(s, 1, <<>>)

\* "/".join(parts)
RECURSIVE Join(_)
Join(parts) ==
    IF Len(parts) = 0 THEN <<>>
    ELSE IF Len(parts) = 1 THEN parts[1]
    ELSE parts[1] \o <<Slash>> \o Join(Tail(parts))

\* "/" in s
HasSlash(s) == \E n \in 1..Len(s) : s[n] = Slash

LowerLetters == <<"a", "b", "c", "d", "e", "f", "g", "h", "i", "j", "k", "l", "m", "n", "o", "p", "q", "r", "s", "t", "u", "v", "w", "x", "y", "z">>
UpperLetters == <<"A", "B", "C", "D", "E", "F", "G", "H", "I", "J", "K", "L", "M", "N", "O", "P", "Q", "R", "S", "T", "U", "V", "W", "X", "Y", "Z">>

\* str.upper on one character
UpperChar(c) ==
    IF \E n \in 1..Len(LowerLetters) : LowerLetters[n] = c
    THEN UpperLetters[CHOOSE n \in 1..Len(LowerLetters) : LowerLetters[n] = c]
    ELSE c

\* one character in lower case
LowerChar(c) ==
    IF \E n \in 1..Len(UpperLetters) : UpperLetters[n] = c
    THEN LowerLetters[CHOOSE n \in 1..Len(UpperLetters) : UpperLetters[n] = c]
    ELSE c

\* the remote compares owner and repository names without regard to case
Lower(s) == [n \in 1..Len(s) |-> LowerChar(s[n])]

---------------------------------------------------------------------------
(* graceful_calling *)

RetryAfterKey == "Retry-After"
ResetKey == "X-RateLimit-Reset"

\* a Retry-After value in seconds, and an X-RateLimit-Reset behind / ahead
RetryAfterSecs == 5
ResetPast == StartTime - 10
ResetFuture == StartTime + 300

\* e.headers: the keys present and their values (keys = {} is None or {})
Headers ==
    { [keys |-> {}, ra |-> 0, rs |-> 0] }
    \cup { [keys |-> {RetryAfterKey}, ra |-> a, rs |-> 0] : a \in {0, RetryAfterSecs} }
    \cup { [keys |-> {ResetKey}, ra |-> 0, rs |-> r] : r \in {ResetPast, ResetFuture} }
    \cup { [keys |-> {RetryAfterKey, ResetKey}, ra |-> a, rs |-> r] :
             a \in {0, RetryAfterSecs}, r \in {ResetPast, ResetFuture} }

\* the exceptions the except clause names
Recognized == {"GithubException", "RateLimitExceededException"}

\* the exceptions fn may raise
ErrorClasses == Recognized \cup {"ValueError"}

\* line 36: the except clause takes the exception
CaughtAnything(cls) == TRUE
Caught(cls) == cls \in Recognized

NoError == [cls |-> "None", headers |-> [keys |-> {}, ra |-> 0, rs |-> 0], at |-> -1]
GithubError(c, h, n) == [cls |-> c, headers |-> h, at |-> n]
OtherError(n) == [cls |-> "ValueError", headers |-> [keys |-> {}, ra |-> 0, rs |-> 0], at |-> n]
\* contextlib's own failures
DidntYield == [cls |-> "RuntimeError: generator didn't yield",
               headers |-> [keys |-> {}, ra |-> 0, rs |-> 0], at |-> -1]
DidntStop == [cls |-> "RuntimeError: generator didn't stop after throw()",
              headers |-> [keys |-> {}, ra |-> 0, rs |-> 0], at |-> -1]

\* e.headers.get(key, -1)
HeaderRetryAfter(h) == IF RetryAfterKey \in h.keys THEN h.ra ELSE -1
HeaderReset(h) == IF ResetKey \in h.keys THEN h.rs ELSE -1

\* lines 43-51 with the reset time tested before the retry-after
BackoffResetFirst(h, n, t) ==
    LET retry_after == IF h.keys # {} THEN HeaderRetryAfter(h) ELSE -1
        reset_unix_time == IF h.keys # {} THEN HeaderReset(h) ELSE -1
    IN  IF reset_unix_time > 0 THEN reset_unix_time - t
        ELSE IF retry_after > 0 THEN retry_after
        ELSE 2 ^ (n + 4)

\* lines 43-51 with `n = i + 3`
BackoffFromEight(h, n, t) ==
    LET retry_after == IF h.keys # {} THEN HeaderRetryAfter(h) ELSE -1
        reset_unix_time == IF h.keys # {} THEN HeaderReset(h) ELSE -1
    IN  IF retry_after > 0 THEN retry_after
        ELSE IF reset_unix_time > 0 THEN reset_unix_time - t
        ELSE 2 ^ (n + 3)

\* the argument of the sleep call of the except clause (lines 38-51)
BackoffSeconds(h, n, t) ==
    LET retry_after == IF h.keys # {} THEN HeaderRetryAfter(h) ELSE -1
        reset_unix_time == IF h.keys # {} THEN HeaderReset(h) ELSE -1
    IN  IF retry_after > 0 THEN retry_after
        ELSE IF reset_unix_time > 0 THEN reset_unix_time - t
        ELSE 2 ^ (n + 4)

\* the except clause, were it to wait only when an iteration is left
ExceptSleepsUnlessLast(h, n, t, m) ==
    IF n + 1 < m THEN <<BackoffSeconds(h, n, t)>> ELSE <<>>

\* lines 36-51: the sleep calls of the except clause in iteration n of m; one
\* of the three branches runs whatever n and m are
ExceptSleeps(h, n, t, m) == <<BackoffSeconds(h, n, t)>>

\* sleep without its guard of lines 19-20
SleptUnguarded(seconds) == seconds

\* sleep(seconds): the seconds actually slept
Slept(seconds) == IF seconds <= 0 THEN 0 ELSE seconds

\* lines 32-33: the sleep calls between fn's return and the yield
PostSuccessPauseAlways(m) == <<30>>
PostSuccessPause(m) == IF m # 0 THEN <<m>> ELSE <<>>

\* `for i in range(max_tries)`: another iteration follows
LoopHasNextOffByOne(n, m) == n <= m
LoopHasNext(n, m) == n < m

Outcome(kind, err) == [kind |-> kind, error |-> err]

\* no function is being called on its own
PureIdle ==
    /\ p_pc = "idle"
    /\ p_in = <<>>
    /\ p_out = <<>>

\* main is not running
MainIdle ==
    /\ pc = "idle"
    /\ remote = {}
    /\ source = <<>>
    /\ to = <<>>
    /\ flags = [sync |-> FALSE]
    /\ k = 0
    /\ queue = <<>>
    /\ fs = <<>>
    /\ calls = <<>>
    /\ console = <<>>
    /\ faults = 0
    /\ raised = "none"
    /\ slept = -1

InitGC ==
    /\ MainIdle
    /\ PureIdle
    /\ gc_pc = "loop"
    /\ phase = "enter"
    /\ i = 0
    /\ max_tries \in 0..MaxTries
    /\ is_mutating \in {0, 30}
    /\ fn_calls = 0
    /\ fn_ok = 0
    /\ ok_at = 0
    /\ yields = 0
    /\ last_err = NoError
    /\ outcome = Outcome("none", NoError)
    /\ waits = <<>>
    /\ now = StartTime

\* line 31: fn() returns
GCCallSucceeds ==
    /\ gc_pc = "loop"
    /\ LoopHasNext(i, max_tries)
    /\ fn_calls' = fn_calls + 1
    /\ fn_ok' = fn_ok + 1
    /\ ok_at' = IF ok_at = 0 THEN fn_calls + 1 ELSE ok_at
    /\ gc_pc' = "pause"
    /\ UNCHANGED <<phase, i, max_tries, is_mutating, yields, last_err, outcome, waits, now>>
    /\ UNCHANGED <<mainvars, purevars>>

\* lines 32-33: the pause after a mutating call
GCPause ==
    /\ gc_pc = "pause"
    /\ LET p == PostSuccessPause(is_mutating)
       IN  /\ waits' = waits \o p
           /\ now' = IF p = <<>> THEN now ELSE now + Slept(p[1])
    /\ gc_pc' = "yield"
    /\ UNCHANGED <<phase, i, max_tries, is_mutating, fn_calls, fn_ok, ok_at, yields,
                   last_err, outcome>>
    /\ UNCHANGED <<mainvars, purevars>>

\* line 34: `yield result`
GCYield ==
    /\ gc_pc = "yield"
    /\ yields' = yields + 1
    /\ IF phase = "enter"
       THEN \* __enter__ returns the result: the with block runs
            /\ gc_pc' = "body"
            /\ outcome' = outcome
       ELSE \* __exit__'s gen.throw() got a second yield
            /\ gc_pc' = "done"
            /\ outcome' = Outcome("raised", DidntStop)
    /\ UNCHANGED <<phase, i, max_tries, is_mutating, fn_calls, fn_ok, ok_at,
                   last_err, waits, now>>
    /\ UNCHANGED <<mainvars, purevars>>

\* fn() raises GithubException or RateLimitExceededException: back off, loop
GCCallFails ==
    /\ gc_pc = "loop"
    /\ LoopHasNext(i, max_tries)
    /\ \E c \in ErrorClasses, h \in Headers :
         LET e == GithubError(c, h, i)
             s == ExceptSleeps(h, i, now, max_tries)
         IN  /\ Caught(c)
             /\ last_err' = e
             /\ waits' = waits \o s
             /\ now' = IF s = <<>> THEN now ELSE now + Slept(s[1])
    /\ fn_calls' = fn_calls + 1
    /\ i' = i + 1
    /\ UNCHANGED <<gc_pc, phase, max_tries, is_mutating, fn_ok, ok_at, yields, outcome>>
    /\ UNCHANGED <<mainvars, purevars>>

\* fn() raises something else: it leaves the generator
GCCallRaisesOther ==
    /\ gc_pc = "loop"
    /\ LoopHasNext(i, max_tries)
    /\ \E c \in ErrorClasses : ~Caught(c)
    /\ fn_calls' = fn_calls + 1
    /\ last_err' = OtherError(i)
    /\ gc_pc' = "done"
    /\ outcome' = Outcome("raised", OtherError(i))
    /\ UNCHANGED <<phase, i, max_tries, is_mutating, fn_ok, ok_at, yields, waits, now>>
    /\ UNCHANGED <<mainvars, purevars>>

\* the loop is exhausted: the generator returns
GCExhausted ==
    /\ gc_pc = "loop"
    /\ ~LoopHasNext(i, max_tries)
    /\ gc_pc' = "done"
    /\ IF phase = "enter"
       THEN \* next(gen) raised StopIteration in __enter__
            outcome' = Outcome("raised", DidntYield)
       ELSE \* gen.throw() raised StopIteration: __exit__ returns True
            outcome' = Outcome("suppressed", NoError)
    /\ UNCHANGED <<phase, i, max_tries, is_mutating, fn_calls, fn_ok, ok_at, yields,
                   last_err, waits, now>>
    /\ UNCHANGED <<mainvars, purevars>>

\* the with block ends normally: next(gen) runs `break`, StopIteration
GCBodyReturns ==
    /\ gc_pc = "body"
    /\ gc_pc' = "done"
    /\ outcome' = Outcome("returned", NoError)
    /\ UNCHANGED <<phase, i, max_tries, is_mutating, fn_calls, fn_ok, ok_at, yields,
                   last_err, waits, now>>
    /\ UNCHANGED <<mainvars, purevars>>

\* the with block raises a GithubException: gen.throw(e) lands at the yield,
\* which is inside the try, so the except clause takes it and the loop goes on
GCBodyRaisesGithub ==
    /\ gc_pc = "body"
    /\ \E c \in Recognized, h \in Headers :
         LET s == ExceptSleeps(h, i, now, max_tries)
         IN  /\ waits' = waits \o s
             /\ now' = IF s = <<>> THEN now ELSE now + Slept(s[1])
    /\ phase' = "throw"
    /\ i' = i + 1
    /\ gc_pc' = "loop"
    /\ UNCHANGED <<max_tries, is_mutating, fn_calls, fn_ok, ok_at, yields, last_err, outcome>>
    /\ UNCHANGED <<mainvars, purevars>>

\* the with block raises anything else: it passes through the generator
GCBodyRaisesOther ==
    /\ gc_pc = "body"
    /\ gc_pc' = "done"
    /\ outcome' = Outcome("raised", OtherError(-1))
    /\ UNCHANGED <<phase, i, max_tries, is_mutating, fn_calls, fn_ok, ok_at, yields,
                   last_err, waits, now>>
    /\ UNCHANGED <<mainvars, purevars>>

NextGC ==
    \/ GCCallSucceeds
    \/ GCPause
    \/ GCYield
    \/ GCCallFails
    \/ GCCallRaisesOther
    \/ GCExhausted
    \/ GCBodyReturns
    \/ GCBodyRaisesGithub
    \/ GCBodyRaisesOther

SpecGC == InitGC /\ [][NextGC]_vars

---------------------------------------------------------------------------
(* The remote service *)

Acme == <<"a", "c", "m", "e">>
Bob == <<"b", "o", "b">>
Corp == <<"c", "o", "r", "p">>
Eve == <<"e", "v", "e">>
Nobody == <<"n", "o", "n", "e">>
Widget == <<"w", "i", "d", "g", "e", "t">>
Gadget == <<"g", "a", "d", "g", "e", "t">>
Vault == <<"v", "a", "u", "l", "t">>
Blank == <<"b", "l", "a", "n", "k">>
Ghost == <<"g", "h", "o", "s", "t">>
Other == <<"o", "t", "h", "e", "r">>
DotGithub == <<".", "g", "i", "t", "h", "u", "b">>

\* full name owner/name
Nwo(owner, name) == Join(<<owner, name>>)

\* the accounts that exist, the organizations among them, and the login of
\* the authenticated user (g.get_user().login)
Accounts == {Acme, Bob, Corp, Eve}
Orgs == {Acme, Corp}
Actor == Bob

Repo(owner, name, fork, size, private) ==
    [full_name |-> Nwo(owner, name), name |-> name, fork |-> fork,
     size |-> size, private |-> private]

\* source_user.get_repos(), in the order the service lists them
ReposOf(account) ==
    IF account = Acme
    THEN << Repo(Acme, Widget, FALSE, 10, FALSE),
            Repo(Acme, Gadget, TRUE, 10, FALSE),
            Repo(Acme, Vault, FALSE, 10, TRUE),
            Repo(Acme, Blank, FALSE, 0, FALSE),
            Repo(Acme, DotGithub, FALSE, 10, FALSE) >>
    ELSE <<>>

SourceRepos == { ReposOf(Acme)[n].full_name : n \in 1..Len(ReposOf(Acme)) }

\* g.get_rate_limit(): retry-after header (-1: none), core.remaining, and
\* the seconds from now to x-ratelimit-reset
RateLimits ==
    { [retry_after |-> -1, remaining |-> 50, reset_in |-> 40],
      [retry_after |-> -1, remaining |-> 3, reset_in |-> 40],
      [retry_after |-> 7, remaining |-> 3, reset_in |-> 40] }

---------------------------------------------------------------------------
(* fork_or_sync *)

\* lines 93-98: the location that is looked up
DestLocation(to_location, from_name) ==
    LET parts == Split(to_location)
        to_user == parts[1]
    IN  IF Len(parts) = 1 THEN Join(<<to_user, from_name>>) ELSE to_location

\* lines 106-113: what is done when the destination was found
ExistsBranchSyncFirst(dry_run, syncing) ==
    IF syncing THEN "sync"
    ELSE IF dry_run THEN "already exists (dry-run)"
    ELSE "exists"
ExistsBranchAlwaysSync(dry_run, syncing) ==
    IF dry_run THEN "already exists (dry-run)" ELSE "sync"
ExistsBranch(dry_run, syncing) ==
    IF dry_run THEN "already exists (dry-run)"
    ELSE IF syncing THEN "sync"
    ELSE "exists"

\* lines 117-127: the object create_fork is called on
ForkTargetAlwaysUser(to_user, user_name) == "user"
ForkTarget(to_user, user_name) == IF to_user = user_name THEN "user" ELSE "org"

\* lines 114-127: what is done when the destination was not found
AbsentBranch(dry_run, to_user, user_name) ==
    IF dry_run THEN "would be forked (dry-run)"
    ELSE IF ForkTarget(to_user, user_name) = "user" THEN "fork"
    ELSE IF Lower(to_user) \in Orgs THEN "fork"
    ELSE "UnknownObjectException"

\* the repository create_fork makes: under the login of the user or
\* organization it is called on, with the source's name
ForkName(target, to_user, user_name, from_name) ==
    IF target = "user" THEN Nwo(user_name, from_name) ELSE Nwo(to_user, from_name)

\* maybe_sleep: the argument of its sleep call (0: no sleep call)
MaybeSleepSeconds(rl, action) ==
    IF rl.retry_after > 0 THEN rl.retry_after
    ELSE IF rl.remaining < 10 THEN rl.reset_in
    ELSE IF action = "forked" THEN 15
    ELSE 0

\* sleep_until_reset: the argument of its sleep call
SleepUntilResetSeconds(rl) == rl.reset_in

NoFrame ==
    [from_repo |-> <<>>, to_location |-> <<>>, to_user |-> <<>>, from_name |-> <<>>,
     syncing |-> FALSE, dry_run |-> FALSE, caller |-> "none", target |-> "none",
     found |-> FALSE, kind |-> "none", new_repo |-> <<>>,
     calls0 |-> 0, remote0 |-> {}]

\* the frame of a call fork_or_sync(from_repo, to_location, syncing, dry_run);
\* calls0 and remote0 remember the call log and the remote state at the call
Frame(from_repo, to_location, syncing, dry_run, caller) ==
    [NoFrame EXCEPT !.from_repo = from_repo, !.to_location = to_location,
                    !.syncing = syncing, !.dry_run = dry_run, !.caller = caller,
                    !.calls0 = Len(calls), !.remote0 = remote]

Ev(ev, kind, src, dst, found) ==
    [ev |-> ev, kind |-> kind, src |-> src, dst |-> dst, found |-> found]
Warn(kind, subject) == Ev("warning", kind, subject, <<>>, FALSE)

Call(op, on, by, owner, ok) ==
    [op |-> op, on |-> on, by |-> by, owner |-> owner, ok |-> ok]

\* `return (kind, ...)` and the caller's rich_print of the decision
Return(kind, new_repo) ==
    /\ fs' = [fs EXCEPT !.kind = kind, !.new_repo = new_repo]
    /\ console' = Append(console,
                         Ev("decision", kind, fs.from_repo, fs.to_location, fs.found))
    /\ pc' = "maybe_sleep"

\* lines 92-127: split the arguments, look up source and destination, decide
FSResolve ==
    /\ pc = "fs_resolve"
    /\ LET from_parts == Split(fs.from_repo)
           parts == Split(fs.to_location)
           to_user == parts[1]
           loc == DestLocation(fs.to_location, IF Len(from_parts) = 2 THEN from_parts[2] ELSE <<>>)
           warned == IF Len(parts) = 1 THEN console
                     ELSE Append(console, Warn("igorning destination repository name", fs.to_location))
           found == Lower(loc) \in remote
       IN  IF Len(from_parts) # 2
           THEN /\ pc' = "raised"
                /\ raised' = "ValueError"
                /\ UNCHANGED <<fs, console>>
           ELSE IF Lower(fs.from_repo) \notin remote
           THEN /\ pc' = "raised"
                /\ raised' = "RepositoryNotFoundException"
                /\ console' = warned
                /\ fs' = [fs EXCEPT !.to_location = loc, !.to_user = to_user,
                                    !.from_name = from_parts[2]]
           ELSE LET fr == [fs EXCEPT !.to_location = loc, !.to_user = to_user,
                                     !.from_name = from_parts[2], !.found = found]
                    branch == IF found THEN ExistsBranch(fs.dry_run, fs.syncing)
                              ELSE AbsentBranch(fs.dry_run, to_user, Actor)
                IN  CASE branch = "sync" ->
                           /\ fs' = fr
                           /\ console' = warned
                           /\ pc' = "fs_sync"
                           /\ UNCHANGED raised
                      [] branch = "fork" ->
                           /\ fs' = [fr EXCEPT !.target = ForkTarget(to_user, Actor)]
                           /\ console' = warned
                           /\ pc' = "fs_fork"
                           /\ UNCHANGED raised
                      [] branch = "UnknownObjectException" ->
                           /\ fs' = fr
                           /\ console' = warned
                           /\ pc' = "raised"
                           /\ raised' = "UnknownObjectException"
                      [] OTHER ->
                           /\ fs' = [fr EXCEPT !.kind = branch]
                           /\ console' = Append(warned,
                                  Ev("decision", branch, fs.from_repo, loc, found))
                           /\ pc' = "maybe_sleep"
                           /\ UNCHANGED raised
    /\ UNCHANGED <<remote, source, to, flags, k, queue, calls, faults, slept>>
    /\ UNCHANGED <<gcvars, purevars>>

\* line 110: sync(retrieve_to_location, branch) returns
FSSyncOk ==
    /\ pc = "fs_sync"
    /\ calls' = Append(calls, Call("merge-upstream", fs.to_location, "repo", fs.to_user, TRUE))
    /\ Return("synced", fs.to_location)
    /\ UNCHANGED <<remote, source, to, flags, k, queue, faults, raised, slept>>
    /\ UNCHANGED <<gcvars, purevars>>

\* line 110: sync raises GithubException, which leaves fork_or_sync
FSSyncFails ==
    /\ pc = "fs_sync"
    /\ faults < MaxFaults
    /\ faults' = faults + 1
    /\ calls' = Append(calls, Call("merge-upstream", fs.to_location, "repo", fs.to_user, FALSE))
    /\ pc' = "raised"
    /\ raised' = "GithubException"
    /\ UNCHANGED <<remote, source, to, flags, k, queue, fs, console, slept>>
    /\ UNCHANGED <<gcvars, purevars>>

\* lines 119-120 / 129-130: the first create_fork returns
FSForkOk ==
    /\ pc = "fs_fork"
    /\ LET new == ForkName(fs.target, fs.to_user, Actor, fs.from_name)
       IN  /\ calls' = Append(calls, Call("create-fork", fs.from_repo, fs.target, fs.to_user, TRUE))
           /\ remote' = remote \cup {new}
           /\ Return("forked", new)
    /\ UNCHANGED <<source, to, flags, k, queue, faults, raised, slept>>
    /\ UNCHANGED <<gcvars, purevars>>

\* lines 121-122 / 131-132: the first create_fork raises; warn
FSForkFails ==
    /\ pc = "fs_fork"
    /\ faults < MaxFaults
    /\ faults' = faults + 1
    /\ calls' = Append(calls, Call("create-fork", fs.from_repo, fs.target, fs.to_user, FALSE))
    /\ console' = Append(console, Warn("Failed to fork", fs.from_repo))
    /\ pc' = "fs_wait"
    /\ UNCHANGED <<remote, source, to, flags, k, queue, fs, raised, slept>>
    /\ UNCHANGED <<gcvars, purevars>>

\* lines 123 / 133: sleep_until_reset(g)
FSWait ==
    /\ pc = "fs_wait"
    /\ \E rl \in RateLimits : slept' = Slept(SleepUntilResetSeconds(rl))
    /\ pc' = "fs_refork"
    /\ UNCHANGED <<remote, source, to, flags, k, queue, fs, calls, console, faults, raised>>
    /\ UNCHANGED <<gcvars, purevars>>

\* lines 124-125 / 134-135: the second create_fork returns
FSReforkOk ==
    /\ pc = "fs_refork"
    /\ LET new == ForkName(fs.target, fs.to_user, Actor, fs.from_name)
       IN  /\ calls' = Append(calls, Call("create-fork", fs.from_repo, fs.target, fs.to_user, TRUE))
           /\ remote' = remote \cup {new}
           /\ Return("forked", new)
    /\ slept' = -1
    /\ UNCHANGED <<source, to, flags, k, queue, faults, raised>>
    /\ UNCHANGED <<gcvars, purevars>>

\* lines 124 / 134: the second create_fork is inside the except clause, under
\* no try of its own: what its exception does
OnSecondForkFailureAgain == "again"
OnSecondForkFailure == "raise"

\* lines 124 / 134: the second create_fork raises too, which leaves fork_or_sync
FSReforkFails ==
    /\ pc = "fs_refork"
    /\ faults < MaxFaults
    /\ faults' = faults + 1
    /\ calls' = Append(calls, Call("create-fork", fs.from_repo, fs.target, fs.to_user, FALSE))
    /\ IF OnSecondForkFailure = "raise"
       THEN /\ pc' = "raised"
            /\ raised' = "GithubException"
       ELSE /\ pc' = "fs_wait"
            /\ UNCHANGED raised
    /\ slept' = -1
    /\ UNCHANGED <<remote, source, to, flags, k, queue, fs, console>>
    /\ UNCHANGED <<gcvars, purevars>>

---------------------------------------------------------------------------
(* filter_repos, user_clone and main *)

\* lines 145-154: the outcome filter_repos yields for one repository
\* lines 145-154 with the size test first
FilterOneEmptyFirst(repo, include_private, include_forks, include_dot_github) ==
    IF repo.size = 0 THEN "Skipping empty repository"
    ELSE IF repo.fork /\ ~include_forks THEN "Skipping forked repository"
    ELSE IF repo.private /\ ~include_private THEN "Skipping private repository"
    ELSE IF repo.name = DotGithub /\ ~include_dot_github THEN "Skipping .github repository"
    ELSE "keep"

FilterOne(repo, include_private, include_forks, include_dot_github) ==
    IF repo.fork /\ ~include_forks THEN "Skipping forked repository"
    ELSE IF repo.size = 0 THEN "Skipping empty repository"
    ELSE IF repo.private /\ ~include_private THEN "Skipping private repository"
    ELSE IF repo.name = DotGithub /\ ~include_dot_github THEN "Skipping .github repository"
    ELSE "keep"

\* filter_repos: one (outcome, repository) pair per repository, in order
FilterRepos(repos, include_private, include_forks, include_dot_github) ==
    [n \in 1..Len(repos) |->
        <<FilterOne(repos[n], include_private, include_forks, include_dot_github), repos[n]>>]

\* lines 179-184: the reports printed and the repositories kept, in order
RECURSIVE SkipReports(_)
SkipReports(pairs) ==
    IF pairs = <<>> THEN <<>>
    ELSE (IF Head(pairs)[1] # "keep"
          THEN <<Ev("report", Head(pairs)[1], Head(pairs)[2].full_name, <<>>, FALSE)>>
          ELSE <<>>) \o SkipReports(Tail(pairs))

\* lines 179-183 without the test of the outcome
KeptWhateverOutcome(pairs) == [n \in 1..Len(pairs) |-> pairs[n][2]]

RECURSIVE Kept(_)
Kept(pairs) ==
    IF pairs = <<>> THEN <<>>
    ELSE (IF Head(pairs)[1] = "keep" THEN <<Head(pairs)[2]>> ELSE <<>>) \o Kept(Tail(pairs))

\* random.shuffle: every order of the list
Shuffles(s) ==
    { [n \in 1..Len(s) |-> s[p[n]]] :
        p \in { q \in [1..Len(s) -> 1..Len(s)] :
                  \A a, b \in 1..Len(s) : a # b => q[a] # q[b] } }

\* lines 168-172: what user_clone does when g.get_user(user) raises
\* UnknownObjectException
OnUnknownUserPropagate == "raise"
OnUnknownUser == "skip"

\* the number of issues of a source repository (get_issues(state="all"))
IssueCount == 1

\* the option sets tried: every --sync, --dry-run and --include-issues
\* setting, with no --include-* filter option or one of them
IncludeSets == {{}, {"include_private"}, {"include_forks"}, {"include_dot_github"}}

FlagSets ==
    { [sync |-> s, dry_run |-> d, include_issues |-> n,
       include_private |-> "include_private" \in inc,
       include_forks |-> "include_forks" \in inc,
       include_dot_github |-> "include_dot_github" \in inc] :
        s \in BOOLEAN, d \in BOOLEAN, n \in BOOLEAN, inc \in IncludeSets }

SourceArgs == {Nwo(Acme, Widget), Nwo(Acme, Ghost), Acme, Nobody}
\* the actor's login as another might type it
BobCapital == <<"B", "o", "b">>

ToArgs == {Bob, Nwo(Bob, Other), Corp, Eve, BobCapital}
\* repositories that may exist before the run: the ones a lookup of the run can
\* address, owner/widget and the location TO itself names
PreExisting(dest) ==
    {Nwo(Bob, Widget), Nwo(Bob, Other), Nwo(Corp, Widget)}
        \cap {Nwo(Lower(Split(dest)[1]), Widget), Lower(dest)}

GCIdle ==
    /\ gc_pc = "idle"
    /\ phase = "enter"
    /\ i = 0
    /\ max_tries = 0
    /\ is_mutating = 0
    /\ fn_calls = 0
    /\ fn_ok = 0
    /\ ok_at = 0
    /\ yields = 0
    /\ last_err = NoError
    /\ outcome = Outcome("none", NoError)
    /\ waits = <<>>
    /\ now = StartTime

\* main starts with a token configured (get_github does not raise); reads of
\* the remote service (get_repo, get_user, get_repos) do not fail, while
\* sync, create_fork and set_has_issues may raise up to MaxFaults times
Init ==
    /\ GCIdle
    /\ PureIdle
    /\ pc = "main"
    /\ source \in UNION { [1..n -> SourceArgs] : n \in 0..MaxSources }
    /\ to \in ToArgs
    /\ \E pre \in SUBSET PreExisting(to) : remote = SourceRepos \cup pre
    /\ flags \in FlagSets
    /\ k = 0
    /\ queue = <<>>
    /\ fs = NoFrame
    /\ calls = <<>>
    /\ console = <<>>
    /\ faults = 0
    /\ raised = "none"
    /\ slept = -1

\* lines 250-252: the next SOURCE argument names a repository
MainForkOrSync ==
    /\ pc = "main"
    /\ k < Len(source)
    /\ HasSlash(source[k + 1])
    /\ k' = k + 1
    /\ fs' = Frame(source[k + 1], to, flags.sync, flags.dry_run, "main")
    /\ pc' = "fs_resolve"
    /\ UNCHANGED <<remote, source, to, flags, queue, calls, console, faults, raised, slept>>
    /\ UNCHANGED <<gcvars, purevars>>

\* lines 250, 262-263: the next SOURCE argument names an account
MainUserClone ==
    /\ pc = "main"
    /\ k < Len(source)
    /\ ~HasSlash(source[k + 1])
    /\ k' = k + 1
    /\ pc' = "uc_start"
    /\ UNCHANGED <<remote, source, to, flags, queue, fs, calls, console, faults, raised, slept>>
    /\ UNCHANGED <<gcvars, purevars>>

\* line 250: no SOURCE argument is left
MainDone ==
    /\ pc = "main"
    /\ k = Len(source)
    /\ pc' = "done"
    /\ UNCHANGED <<remote, source, to, flags, k, queue, fs, calls, console, faults, raised, slept>>
    /\ UNCHANGED <<gcvars, purevars>>

\* lines 190 / 254: maybe_sleep(g, kind, dry_run)
MaybeSleep ==
    /\ pc = "maybe_sleep"
    /\ \E rl \in RateLimits : slept' = Slept(MaybeSleepSeconds(rl, fs.kind))
    /\ pc' = "after_sleep"
    /\ UNCHANGED <<remote, source, to, flags, k, queue, fs, calls, console, faults, raised>>
    /\ UNCHANGED <<gcvars, purevars>>

\* lines 191-192 / 255: after the pacing wait
AfterSleep ==
    /\ pc = "after_sleep"
    /\ slept' = -1
    /\ pc' = IF fs.caller = "main"
             THEN (IF flags.include_issues /\ fs.kind = "forked" /\ ~flags.dry_run
                   THEN "issues" ELSE "main")
             ELSE "uc_loop"
    /\ console' = IF fs.caller = "uc" /\ flags.include_issues /\ ~flags.dry_run
                  THEN Append(console, Ev("print", "TODO: clone issues", fs.from_repo, <<>>, FALSE))
                  ELSE console
    /\ UNCHANGED <<remote, source, to, flags, k, queue, fs, calls, faults, raised>>
    /\ UNCHANGED <<gcvars, purevars>>

\* lines 256-260: set_has_issues, then process_issue for each issue
MainIssuesOk ==
    /\ pc = "issues"
    /\ calls' = calls \o <<Call("set-has-issues", fs.new_repo, "repo", fs.to_user, TRUE)>>
                      \o [n \in 1..IssueCount |->
                            Call("create-issue", fs.new_repo, "repo", fs.to_user, TRUE)]
    /\ pc' = "main"
    /\ UNCHANGED <<remote, source, to, flags, k, queue, fs, console, faults, raised, slept>>
    /\ UNCHANGED <<gcvars, purevars>>

\* line 256: set_has_issues raises GithubException, which leaves main
MainIssuesFails ==
    /\ pc = "issues"
    /\ faults < MaxFaults
    /\ faults' = faults + 1
    /\ calls' = Append(calls, Call("set-has-issues", fs.new_repo, "repo", fs.to_user, FALSE))
    /\ pc' = "raised"
    /\ raised' = "GithubException"
    /\ UNCHANGED <<remote, source, to, flags, k, queue, fs, console, slept>>
    /\ UNCHANGED <<gcvars, purevars>>

\* lines 168-172: the account does not exist
UCUnknownUser ==
    /\ pc = "uc_start"
    /\ source[k] \notin Accounts
    /\ IF OnUnknownUser = "skip"
       THEN /\ console' = Append(console, Warn("not found; skipping", source[k]))
            /\ pc' = "main"
            /\ UNCHANGED raised
       ELSE /\ pc' = "raised"
            /\ raised' = "UnknownObjectException"
            /\ UNCHANGED console
    /\ UNCHANGED <<remote, source, to, flags, k, queue, fs, calls, faults, slept>>
    /\ UNCHANGED <<gcvars, purevars>>

\* lines 173-186: list, filter, report the skipped, shuffle the kept
UCList ==
    /\ pc = "uc_start"
    /\ source[k] \in Accounts
    /\ LET pairs == FilterRepos(ReposOf(source[k]), flags.include_private,
                                flags.include_forks, flags.include_dot_github)
       IN  /\ console' = console \o SkipReports(pairs)
           /\ queue' \in Shuffles(Kept(pairs))
    /\ pc' = "uc_loop"
    /\ UNCHANGED <<remote, source, to, flags, k, fs, calls, faults, raised, slept>>
    /\ UNCHANGED <<gcvars, purevars>>

\* lines 187-188: the next kept repository
UCNext ==
    /\ pc = "uc_loop"
    /\ queue # <<>>
    /\ fs' = Frame(Head(queue).full_name, to, flags.sync, flags.dry_run, "uc")
    /\ queue' = Tail(queue)
    /\ pc' = "fs_resolve"
    /\ UNCHANGED <<remote, source, to, flags, k, calls, console, faults, raised, slept>>
    /\ UNCHANGED <<gcvars, purevars>>

\* line 187: no repository is left; user_clone returns to main
UCReturn ==
    /\ pc = "uc_loop"
    /\ queue = <<>>
    /\ pc' = "main"
    /\ UNCHANGED <<remote, source, to, flags, k, queue, fs, calls, console, faults, raised, slept>>
    /\ UNCHANGED <<gcvars, purevars>>

Next ==
    \/ MainForkOrSync
    \/ MainUserClone
    \/ MainDone
    \/ FSResolve
    \/ FSSyncOk
    \/ FSSyncFails
    \/ FSForkOk
    \/ FSForkFails
    \/ FSWait
    \/ FSReforkOk
    \/ FSReforkFails
    \/ MaybeSleep
    \/ AfterSleep
    \/ MainIssuesOk
    \/ MainIssuesFails
    \/ UCUnknownUser
    \/ UCList
    \/ UCNext
    \/ UCReturn

Spec == Init /\ [][Next]_vars

---------------------------------------------------------------------------
(* Claims about graceful_calling, checked under SpecGC *)

\* C1: one invocation of graceful_calling executes fn at most max_tries
\* times, whatever mix of successes and recognized errors fn produces.
C1_AtMostMaxTries == fn_calls <= max_tries

\* C1 witness: an invocation that ended after max_tries >= 2 executions, at
\* least one of which succeeded and one of which failed.
C1_Witness ==
    /\ gc_pc = "done"
    /\ max_tries >= 2
    /\ fn_calls = max_tries
    /\ fn_ok >= 1
    /\ last_err.cls \in Recognized

\* C2 (as claimed): the result is delivered at most once, fn is not executed
\* again once it has succeeded, and the wrapper adds no failure of its own
\* after delivering the result, whatever the with block does.
C2_OneOutcomeNoRerun ==
    /\ yields <= 1
    /\ (ok_at > 0 => fn_calls = ok_at)
    /\ (yields >= 1 => outcome.error # DidntStop)

\* C3 (as claimed): when all max_tries executions raised a recognized error,
\* the invocation ends in a failure that carries the error of the last one.
C3_ExhaustedCarriesLastError ==
    (gc_pc = "done" /\ max_tries > 0 /\ fn_calls = max_tries /\ fn_ok = 0
         /\ last_err.cls \in Recognized)
        => (outcome.kind = "raised" /\ outcome.error = last_err)

---------------------------------------------------------------------------
(* Claims about main, user_clone and fork_or_sync, checked under Spec *)

IsDecision(e) == e.ev = "decision"
Mutating == {"create-fork", "merge-upstream"}

\* C4: in a dry run no create-fork and no merge-upstream call is issued,
\* and every decision returned is 'would be forked (dry-run)' or
\* 'already exists (dry-run)', whether the destination exists or not and
\* whatever syncing is.
C4_DryRunNoMutation ==
    flags.dry_run =>
        /\ \A n \in DOMAIN calls : calls[n].op \notin Mutating
        /\ \A n \in DOMAIN console :
              IsDecision(console[n]) =>
                  console[n].kind \in {"would be forked (dry-run)", "already exists (dry-run)"}

\* C4 witness: a finished dry run with syncing on that met a destination
\* that exists and one that does not.
C4_Witness ==
    /\ pc = "done"
    /\ flags.dry_run
    /\ flags.sync
    /\ \E n \in DOMAIN console :
          IsDecision(console[n]) /\ console[n].kind = "already exists (dry-run)"
    /\ \E n \in DOMAIN console :
          IsDecision(console[n]) /\ console[n].kind = "would be forked (dry-run)"

\* C5 (as claimed): a run that finds the destination, with syncing and
\* without dry-run, returns 'synced', and over the runs of one
\* source/destination pair create-fork succeeds at most once.
C5_Idempotent ==
    /\ \A n \in DOMAIN console :
          (IsDecision(console[n]) /\ console[n].found /\ flags.sync /\ ~flags.dry_run)
              => console[n].kind = "synced"
    /\ \A m, n \in DOMAIN calls :
          (m < n /\ calls[m].op = "create-fork" /\ calls[n].op = "create-fork"
                 /\ calls[m].on = calls[n].on /\ calls[m].ok)
              => ~calls[n].ok

\* C6: when the destination lookup finds a repository, syncing is false
\* and dry_run is false, fork_or_sync returns 'exists', issues no remote
\* call and leaves the remote state as it was at the call.
C6_ExistsNoMutation ==
    (fs.found /\ ~fs.syncing /\ ~fs.dry_run) =>
        /\ fs.kind = "exists"
        /\ pc \notin {"fs_sync", "fs_fork", "fs_wait", "fs_refork", "issues", "raised"}
        /\ Len(calls) = fs.calls0
        /\ remote = fs.remote0

\* C6 witness: a finished run whose last fork_or_sync returned 'exists'
\* after an earlier one had issued calls.
C6_Witness ==
    /\ pc = "done"
    /\ fs.found /\ ~fs.syncing /\ ~fs.dry_run
    /\ fs.kind = "exists"
    /\ fs.calls0 > 0

\* C7 (as claimed): the location fork_or_sync looks up is
\* {destination owner}/{source name}, with or without a name segment in
\* the destination argument.
C7_LooksUpOwnerSlashName ==
    fs.to_user # <<>> => fs.to_location = Nwo(fs.to_user, fs.from_name)

\* C8: every create-fork call is issued on the authenticated user when
\* the destination owner is the actor and otherwise on the organization
\* that owner names; a fork_or_sync that did not find the destination and
\* is not a dry run returns only 'forked', after a create-fork call on
\* the source that succeeded, and the fork exists as {owner}/{source name}.
C8_ForksUnderOwner ==
    /\ \A n \in DOMAIN calls :
          calls[n].op = "create-fork" =>
              /\ calls[n].by = (IF calls[n].owner = Actor THEN "user" ELSE "org")
              /\ (calls[n].by = "org" => calls[n].owner \in Orgs)
    /\ (~fs.found /\ ~fs.dry_run /\ fs.kind # "none") =>
          /\ fs.kind = "forked"
          /\ fs.new_repo = Nwo(fs.to_user, fs.from_name)
          /\ fs.new_repo \in remote
          /\ \E n \in (fs.calls0 + 1)..Len(calls) :
                calls[n] = Call("create-fork", fs.from_repo,
                                IF fs.to_user = Actor THEN "user" ELSE "org",
                                fs.to_user, TRUE)

\* C8 witness: source acme/widget, destination bob, actor bob, destination
\* absent: 'forked', created on the user as bob/widget.
C8_Witness ==
    /\ to = <<"b", "o", "b">>
    /\ Actor = <<"b", "o", "b">>
    /\ fs.from_repo = <<"a", "c", "m", "e", "/", "w", "i", "d", "g", "e", "t">>
    /\ ~fs.found
    /\ fs.kind = "forked"
    /\ fs.target = "user"
    /\ fs.new_repo = <<"b", "o", "b", "/", "w", "i", "d", "g", "e", "t">>
    /\ fs.new_repo \in remote

\* C9 (as claimed): a failure while processing one repository never aborts
\* the batch: when an exception has left main, no source argument and no
\* repository of the account being cloned was left unprocessed.
C9_BatchNeverAborted ==
    pc = "raised" => (k = Len(source) /\ queue = <<>>)

\* C10: when a source argument names an account that does not exist,
\* user_clone issues no remote call, changes nothing remotely, emits the
\* warning and returns normally to main, and main, with a source argument
\* left, goes on to it.
C10_UnknownAccountSkipped ==
    [][ /\ (pc = "uc_start" /\ source[k] \notin Accounts) =>
             /\ pc' = "main"
             /\ raised' = "none"
             /\ calls' = calls
             /\ remote' = remote
             /\ k' = k
             /\ console' = Append(console, Warn("not found; skipping", source[k]))
        /\ (pc = "main" /\ k < Len(source)) =>
             /\ k' = k + 1
             /\ pc' \in {"fs_resolve", "uc_start"} ]_vars

\* C10 witness: the first source argument named a missing account, and the
\* second was then processed to the end with a remote call.
C10_Witness ==
    /\ pc = "done"
    /\ Len(source) = 2
    /\ source[1] \notin Accounts /\ ~HasSlash(source[1])
    /\ console[1] = Warn("not found; skipping", source[1])
    /\ Len(calls) > 0

---------------------------------------------------------------------------
(* fork_or_sync and the retry wrapper *)

\* line 26: `max_tries: int = 3`
DefaultMaxTries == 3

\* the failed attempts of the mutating call `op` since fork_or_sync was entered
FailedAttempts(op) ==
    Cardinality({n \in (fs.calls0 + 1)..Len(calls) : calls[n].op = op /\ ~calls[n].ok})

\* C11: a failure of a mutating call (merge-upstream, create-fork) leaves
\* fork_or_sync only after the call was attempted the wrapper's three times.
C11_MutatingCallsRetried ==
    (/\ pc = "raised"
     /\ raised = "GithubException"
     /\ Len(calls) > fs.calls0
     /\ calls[Len(calls)].op \in Mutating
     /\ ~calls[Len(calls)].ok)
    => FailedAttempts(calls[Len(calls)].op) = DefaultMaxTries

---------------------------------------------------------------------------
(* filter_repos on one repository, with the flags as main parses them *)

\* the largest repository size drawn
MaxSize == 1

FilterOptions == {"include_private", "include_forks", "include_dot_github"}

\* the keyword defaults of filter_repos' own signature (lines 140-142)
SignatureDefault(name) == name = "include_private"

\* lines 209-218: `is_flag=True, default=False` for each of the three options
OptionDefault(name) == FALSE

\* the value main receives for an option, given the options on the command line
OptionValue(name, given) == IF name \in given THEN TRUE ELSE OptionDefault(name)

\* every repository by its four attributes, every set of options given
InitFilter ==
    /\ GCIdle
    /\ MainIdle
    /\ p_pc = "filter"
    /\ p_in \in [repo : { Repo(Acme, nm, f, sz, pr) :
                              nm \in {Widget, DotGithub}, f \in BOOLEAN,
                              sz \in 0..MaxSize, pr \in BOOLEAN },
                  given : SUBSET FilterOptions]
    /\ p_out = <<>>

\* main -> user_clone -> filter_repos([repo], ...): the pair it yields
FilterCall ==
    /\ p_pc = "filter"
    /\ p_out' = FilterRepos(<<p_in.repo>>,
                            OptionValue("include_private", p_in.given),
                            OptionValue("include_forks", p_in.given),
                            OptionValue("include_dot_github", p_in.given))[1]
    /\ p_pc' = "done"
    /\ UNCHANGED p_in
    /\ UNCHANGED <<gcvars, mainvars>>

NextFilter == FilterCall

SpecFilter == InitFilter /\ [][NextFilter]_vars

\* C12: filter_repos excludes a repository exactly when it is a fork and
\* include_forks is false, or its size is 0, or it is private and
\* include_private is false, or it is named .github and include_dot_github
\* is false; and a private repository is kept only when --include-private
\* was given.
C12_FilterExcludesExactly ==
    p_pc = "done" =>
        LET repo == p_in.repo
            excluded == p_out[1] # "keep"
        IN  /\ p_out[2] = repo
            /\ excluded <=>
                  \/ repo.fork /\ "include_forks" \notin p_in.given
                  \/ repo.size = 0
                  \/ repo.private /\ "include_private" \notin p_in.given
                  \/ repo.name = DotGithub /\ "include_dot_github" \notin p_in.given
            /\ (repo.private /\ ~excluded) => "include_private" \in p_in.given

\* C12 witness: a private repository that is neither a fork nor empty was
\* filtered with no option given, and was excluded.
C12_Witness ==
    /\ p_pc = "done"
    /\ p_in.repo.private /\ ~p_in.repo.fork /\ p_in.repo.size > 0
    /\ p_in.given = {}
    /\ p_out[1] = "Skipping private repository"

---------------------------------------------------------------------------
(* graceful_calling: the waits *)

\* the step is an attempt of fn that failed with an exception the except
\* clause takes
FailedAttempt ==
    /\ gc_pc = "loop"
    /\ gc_pc' = "loop"
    /\ fn_calls' = fn_calls + 1

\* the error of the attempt carries a retry-after above zero
CarriesRetryAfter(e) == RetryAfterKey \in e.headers.keys /\ e.headers.ra > 0

\* the error of the attempt carries a reset-time hint
CarriesReset(e) == ResetKey \in e.headers.keys

\* the actions main passes to maybe_sleep
PaceActions == {"forked", "synced", "exists", "none"}

C16_ExponentialBackoff ==
    [][ FailedAttempt =>
          LET e == last_err'
          IN  (~CarriesRetryAfter(e) /\ ~CarriesReset(e)) =>
                 /\ e.at = i
                 /\ waits' = Append(waits, 2 ^ (i + 4))
                 /\ now' = now + 2 ^ (i + 4) ]_vars

\* C16 witness: three attempts failed without hints: 16, 32 and 64 seconds.
C16_Witness ==
    /\ gc_pc = "done"
    /\ fn_calls = 3
    /\ waits = <<16, 32, 64>>
    /\ now = StartTime + 112

---------------------------------------------------------------------------
(* maybe_sleep of repo_fork/fork.py, with the types of its numbers *)

\* time.time() returns a float, int(...) an int; int - float is a float
PyInt(v) == [val |-> v, isfloat |-> FALSE]
PyFloat(v) == [val |-> v, isfloat |-> TRUE]
Minus(a, b) == [val |-> a.val - b.val, isfloat |-> a.isfloat \/ b.isfloat]

\* lines 17-21: sleep(seconds); range() does not take a float
RFSleep(seconds) ==
    IF seconds.val <= 0 THEN [slept |-> 0, raised |-> "none"]
    ELSE IF seconds.isfloat THEN [slept |-> 0, raised |-> "TypeError"]
    ELSE [slept |-> seconds.val, raised |-> "none"]

\* lines 24-36; the snapshot gives the reset time as seconds from `t`
RFMaybeSleep(rl, action, t) ==
    LET retry_after == PyInt(rl.retry_after)
        current_unix_time == PyFloat(t)
        reset_unix_time == PyInt(t + rl.reset_in)
        sleep_time == Minus(reset_unix_time, current_unix_time)
    IN  IF retry_after.val > 0 THEN RFSleep(retry_after)
        ELSE IF rl.remaining < 10 THEN RFSleep(sleep_time)
        ELSE IF action = "forked" THEN RFSleep(PyInt(15))
        ELSE [slept |-> 0, raised |-> "none"]

\* the snapshots drawn: retry-after absent (-1), zero or positive; remaining
\* on both sides of 10; the reset time behind, now or ahead
Snapshots ==
    [retry_after : {-1, 0, RetryAfterSecs},
     remaining : {0, 3, 9, 10, 50},
     reset_in : {-20, 0, 40}]

InitPace ==
    /\ GCIdle
    /\ MainIdle
    /\ p_pc = "maybe_sleep"
    /\ p_in \in [rl : Snapshots, action : PaceActions]
    /\ p_out = <<>>

\* maybe_sleep(g, action) with g.get_rate_limit() returning the snapshot
PaceCall ==
    /\ p_pc = "maybe_sleep"
    /\ p_out' = RFMaybeSleep(p_in.rl, p_in.action, StartTime)
    /\ p_pc' = "done"
    /\ UNCHANGED p_in
    /\ UNCHANGED <<gcvars, mainvars>>

NextPace == PaceCall

SpecPace == InitPace /\ [][NextPace]_vars

\* C14: with fewer than 10 calls remaining (and no retry-after, which comes
\* first), maybe_sleep returns after having waited the seconds left until the
\* reset time, none if it is behind, whatever the action.
C14_LowQuotaWaitsUntilReset ==
    (p_pc = "done" /\ p_in.rl.remaining < 10 /\ p_in.rl.retry_after <= 0) =>
        /\ p_out.raised = "none"
        /\ p_out.slept = (IF p_in.rl.reset_in > 0 THEN p_in.rl.reset_in ELSE 0)

---------------------------------------------------------------------------
(* text_pipeline *)

\* the longest list of functions drawn
MaxFns == 3

\* tests/test_utils.py: text.upper()
ToUppercase(text) == [n \in 1..Len(text) |-> UpperChar(text[n])]

\* tests/test_utils.py: text[::-1]
ToReverse(text) == [n \in 1..Len(text) |-> text[Len(text) + 1 - n]]

\* replace_references("lo", "p"): re.sub, leftmost matches, not overlapping
RECURSIVE Replacer(_)
Replacer(text) ==
    IF Len(text) < 2 THEN text
    ELSE IF text[1] = "l" /\ text[2] = "o"
         THEN <<"p">> \o Replacer(SubSeq(text, 3, Len(text)))
         ELSE <<text[1]>> \o Replacer(Tail(text))

Fns == {"to_uppercase", "to_reverse", "replacer"}

\* fn(acc)
Apply(fn, acc) ==
    CASE fn = "to_uppercase" -> ToUppercase(acc)
      [] fn = "to_reverse" -> ToReverse(acc)
      [] fn = "replacer" -> Replacer(acc)

\* a fold from the right: the last function of the list is applied first
RECURSIVE ReduceRight(_, _)
ReduceRight(fns, acc) ==
    IF fns = <<>> THEN acc
    ELSE Apply(Head(fns), ReduceRight(Tail(fns), acc))

\* functools.reduce(lambda acc, fn: fn(acc), fns, text)
RECURSIVE Reduce(_, _)
Reduce(fns, acc) ==
    IF fns = <<>> THEN acc
    ELSE Reduce(Tail(fns), Apply(Head(fns), acc))

TextPipelineReversed(text, fns) == ReduceRight(fns, text)
TextPipeline(text, fns) == Reduce(fns, text)

HelloUser == <<"H", "e", "l", "l", "o", " ", "@", "u", "s", "e", "r", "!">>
HelloUserUpper == <<"H", "E", "L", "L", "O", " ", "@", "U", "S", "E", "R", "!">>
Texts == {<<>>, <<"l", "o">>, HelloUser}

\* every list of at most MaxFns functions
FnLists == UNION { [1..n -> Fns] : n \in 0..MaxFns }

InitText ==
    /\ GCIdle
    /\ MainIdle
    /\ p_pc = "text_pipeline"
    /\ p_in \in [text : Texts, fns : FnLists]
    /\ p_out = <<>>

TextCall ==
    /\ p_pc = "text_pipeline"
    /\ p_out' = [result |-> TextPipeline(p_in.text, p_in.fns)]
    /\ p_pc' = "done"
    /\ UNCHANGED p_in
    /\ UNCHANGED <<gcvars, mainvars>>

NextText == TextCall

SpecText == InitText /\ [][NextText]_vars

\* fn(...f1(text)), written from the outermost application inwards
RECURSIVE Nested(_, _)
Nested(text, fns) ==
    IF fns = <<>> THEN text
    ELSE Apply(fns[Len(fns)], Nested(text, SubSeq(fns, 1, Len(fns) - 1)))

\* C15: text_pipeline returns fn(...f1(text)) for the functions f1..fn of the
\* list, the text itself for the empty list, and "HELLO @USER!" for the
\* list and the text of test_multiple_functions.
C15_LeftFold ==
    p_pc = "done" =>
        /\ p_out.result = Nested(p_in.text, p_in.fns)
        /\ (p_in.fns = <<>> => p_out.result = p_in.text)
        /\ (p_in.text = HelloUser /\ p_in.fns = <<"to_reverse", "to_uppercase", "to_reverse">>)
              => p_out.result = HelloUserUpper

\* C15 witness: upper-casing came first in the list, so the replacer found no
\* "lo" to replace; in the other order the result would differ.
C15_Witness ==
    /\ p_pc = "done"
    /\ p_in.text = HelloUser
    /\ p_in.fns = <<"to_uppercase", "replacer">>
    /\ p_out.result = HelloUserUpper
    /\ Replacer(p_in.text) # p_in.text

---------------------------------------------------------------------------
(* graceful_calling: what is retried, and the pauses *)

\* C17: an exception of fn that is not a GithubException leaves the wrapper
\* at once: it is the wrapper's outcome, no wait is made for it, and fn is
\* not executed again.
C17_OtherErrorsNotRetried ==
    [][ /\ last_err'.cls \notin (Recognized \cup {"None"}) =>
             /\ gc_pc' = "done"
             /\ outcome' = Outcome("raised", last_err')
        /\ (last_err'.cls \notin (Recognized \cup {"None"}) /\ last_err' # last_err) =>
             /\ fn_calls' = fn_calls + 1
             /\ waits' = waits
             /\ now' = now
        /\ last_err.cls \notin (Recognized \cup {"None"}) => fn_calls' = fn_calls ]_vars

\* C17 witness: the first attempt failed with a GithubException and was
\* waited for; the second raised another error, which ended the call.
C17_Witness ==
    /\ gc_pc = "done"
    /\ outcome = Outcome("raised", OtherError(1))
    /\ fn_calls = 2
    /\ Len(waits) = 1

\* C18: after fn returns and before its result is yielded, the wrapper
\* pauses once for is_mutating seconds when is_mutating > 0 and not at all
\* when it is 0; the pause is entered only from a successful attempt.
C18_PauseAfterSuccess ==
    [][ /\ gc_pc = "pause" =>
             /\ gc_pc' = "yield"
             /\ yields' = yields
             /\ fn_calls' = fn_calls
             /\ waits' = (IF is_mutating > 0 THEN Append(waits, is_mutating) ELSE waits)
             /\ now' = (IF is_mutating > 0 THEN now + is_mutating ELSE now)
        /\ yields' # yields => (gc_pc = "yield" /\ waits' = waits)
        /\ gc_pc' = "pause" => (gc_pc = "loop" /\ fn_ok' = fn_ok + 1)
        /\ fn_ok' # fn_ok => gc_pc' = "pause"
        /\ FailedAttempt => Len(waits') = Len(waits) + 1 ]_vars

\* C18 witness: the first attempt failed, the second succeeded with
\* is_mutating > 0, and the with block runs after the backoff and one pause.
C18_Witness ==
    /\ gc_pc = "body"
    /\ is_mutating > 0
    /\ fn_calls = 2 /\ fn_ok = 1
    /\ Len(waits) = 2
    /\ waits[2] = is_mutating

---------------------------------------------------------------------------
(* fork_or_sync: whose fork it is *)

\* C20: when the destination owner is the actor's login up to letter case,
\* the destination is absent and this is no dry run, fork_or_sync forks under
\* the user and looks up no organization.
C20_OwnerCaseInsensitive ==
    (/\ pc \notin {"idle", "main", "fs_resolve", "uc_start", "done"}
     /\ fs.to_user # <<>>
     /\ Lower(fs.to_user) = Lower(Actor)
     /\ raised \notin {"ValueError", "RepositoryNotFoundException"}
     /\ ~fs.found
     /\ ~fs.dry_run)
    => (fs.target = "user" /\ raised # "UnknownObjectException")

---------------------------------------------------------------------------
(* user_clone's filtering of a list of repositories, and its reports *)

\* the longest list of repositories drawn
MaxRepos == 2

\* a repository by its four attributes
AnyRepo ==
    { Repo(Acme, nm, f, sz, pr) :
        nm \in {Widget, DotGithub}, f \in BOOLEAN, sz \in {0, 10}, pr \in BOOLEAN }

InitReport ==
    /\ GCIdle
    /\ MainIdle
    /\ p_pc = "report"
    /\ p_in \in [repos : UNION { [1..n -> AnyRepo] : n \in 0..MaxRepos },
                  given : SUBSET FilterOptions]
    /\ p_out = <<>>

\* lines 178-185: filter, print the skipped with their reasons, collect the kept
ReportCall ==
    /\ p_pc = "report"
    /\ LET pairs == FilterRepos(p_in.repos,
                                OptionValue("include_private", p_in.given),
                                OptionValue("include_forks", p_in.given),
                                OptionValue("include_dot_github", p_in.given))
       IN  p_out' = [pairs |-> pairs, printed |-> SkipReports(pairs),
                     filtered_repos |-> Kept(pairs)]
    /\ p_pc' = "done"
    /\ UNCHANGED p_in
    /\ UNCHANGED <<gcvars, mainvars>>

NextReport == ReportCall

SpecReport == InitReport /\ [][NextReport]_vars

\* the conditions of exclusion, each with the flag that lifts it
IsForked(repo, given) == repo.fork /\ "include_forks" \notin given
IsEmpty(repo) == repo.size = 0
IsPrivate(repo, given) == repo.private /\ "include_private" \notin given
IsDotGithub(repo, given) == repo.name = DotGithub /\ "include_dot_github" \notin given

IsSkipped(pair) == pair[1] # "keep"
IsKeptRepo(repo) ==
    ~(IsForked(repo, p_in.given) \/ IsEmpty(repo) \/ IsPrivate(repo, p_in.given)
        \/ IsDotGithub(repo, p_in.given))

\* C21: filter_repos yields one outcome per repository, in input order, the
\* reason being the first that applies of forked, empty, private, .github,
\* and 'keep' when none does; user_clone prints one report, with the reason,
\* for every excluded repository, in order, and keeps the others.
C21_OneOutcomeEachReported ==
    p_pc = "done" =>
        LET repos == p_in.repos
            g == p_in.given
            skipped == SelectSeq(p_out.pairs, IsSkipped)
        IN  /\ Len(p_out.pairs) = Len(repos)
            /\ \A n \in 1..Len(repos) :
                  LET r == repos[n]
                      o == p_out.pairs[n][1]
                  IN  /\ p_out.pairs[n][2] = r
                      /\ (o = "Skipping forked repository") <=> IsForked(r, g)
                      /\ (o = "Skipping empty repository") <=> (~IsForked(r, g) /\ IsEmpty(r))
                      /\ (o = "Skipping private repository") <=>
                            (~IsForked(r, g) /\ ~IsEmpty(r) /\ IsPrivate(r, g))
                      /\ (o = "Skipping .github repository") <=>
                            (~IsForked(r, g) /\ ~IsEmpty(r) /\ ~IsPrivate(r, g)
                               /\ IsDotGithub(r, g))
                      /\ (o = "keep") <=> IsKeptRepo(r)
            /\ p_out.printed =
                  [m \in 1..Len(skipped) |->
                      Ev("report", skipped[m][1], skipped[m][2].full_name, <<>>, FALSE)]
            /\ p_out.filtered_repos = SelectSeq(repos, IsKeptRepo)
            /\ Len(p_out.printed) + Len(p_out.filtered_repos) = Len(repos)

\* C21 witness: a repository that is a fork, empty and private was listed
\* before a kept one; it was reported once, as forked.
C21_Witness ==
    /\ p_pc = "done"
    /\ p_in.given = {}
    /\ Len(p_in.repos) = 2
    /\ p_in.repos[1].fork /\ p_in.repos[1].size = 0 /\ p_in.repos[1].private
    /\ Len(p_out.printed) = 1
    /\ p_out.printed[1].kind = "Skipping forked repository"
    /\ p_out.filtered_repos = <<p_in.repos[2]>>

---------------------------------------------------------------------------
(* graceful_calling: the wait after the last attempt *)

\* every execution of fn so far failed with an exception the wrapper takes,
\* and the wrapper is done
AllAttemptsFailed ==
    /\ gc_pc = "done"
    /\ fn_ok = 0
    /\ outcome = Outcome("raised", DidntYield)

\* C22: each failed attempt, whether an iteration is left or not, is followed
\* by one backoff wait, made in the same pass of the except clause; when
\* every attempt failed, max_tries waits were made.
C22_WaitAfterEveryFailure ==
    [][ /\ FailedAttempt =>
             /\ Len(waits') = Len(waits) + 1
             /\ waits'[Len(waits')] = BackoffSeconds(last_err'.headers, i, now)
             /\ i' = i + 1
        /\ AllAttemptsFailed' =>
             /\ fn_calls' = max_tries'
             /\ Len(waits') = max_tries' ]_vars

\* C22 witness: three attempts, all failed, three waits made, the last one
\* after the third attempt.
C22_Witness ==
    /\ AllAttemptsFailed
    /\ max_tries = 3
    /\ fn_calls = 3
    /\ Len(waits) = 3
    /\ last_err.at = 2

---------------------------------------------------------------------------
(* fork_or_sync: how often it calls *)

\* the calls of `op` made since fork_or_sync was entered, by their place in
\* the call log
CallsOf(op) == {n \in (fs.calls0 + 1)..Len(calls) : calls[n].op = op}

\* C23: one invocation of fork_or_sync makes at most two create-fork calls,
\* the second directly after a first that raised and after the wait for the
\* rate-limit reset; when the second raises, the exception leaves
\* fork_or_sync; and it makes at most one merge-upstream call.
C23_AtMostTwoForkCalls ==
    LET forks == CallsOf("create-fork")
        first == CHOOSE n \in forks : \A m \in forks : n <= m
    IN  /\ Cardinality(forks) <= 2
        /\ Cardinality(CallsOf("merge-upstream")) <= 1
        /\ Cardinality(forks) = 2 =>
              /\ ~calls[first].ok
              /\ forks = {first, first + 1}
              /\ (~calls[first + 1].ok) => (pc = "raised" /\ raised = "GithubException")
        /\ pc = "fs_wait" => (Cardinality(forks) = 1 /\ ~calls[first].ok /\ slept = -1)
        /\ pc = "fs_refork" =>
              /\ Cardinality(forks) = 1
              /\ ~calls[first].ok
              /\ \E rl \in RateLimits : slept = Slept(SleepUntilResetSeconds(rl))

\* C23 witness: the first create-fork raised, the reset was waited for, and
\* the second raised too and left fork_or_sync.
C23_Witness ==
    /\ pc = "raised"
    /\ raised = "GithubException"
    /\ Cardinality(CallsOf("create-fork")) = 2
    /\ \A n \in CallsOf("create-fork") : ~calls[n].ok

---------------------------------------------------------------------------
(* user_clone: one repository after the other *)

\* SOURCE arguments that name accounts: main hands each to user_clone
AccountArgs == {Acme, Nobody}

\* main as in Init, every SOURCE argument naming an account
InitBatch ==
    /\ GCIdle
    /\ PureIdle
    /\ pc = "main"
    /\ source \in UNION { [1..n -> AccountArgs] : n \in 1..MaxSources }
    /\ to \in ToArgs
    /\ \E pre \in SUBSET PreExisting(to) : remote = SourceRepos \cup pre
    /\ flags \in FlagSets
    /\ k = 0
    /\ queue = <<>>
    /\ fs = NoFrame
    /\ calls = <<>>
    /\ console = <<>>
    /\ faults = 0
    /\ raised = "none"
    /\ slept = -1

\* main's loop over accounts, user_clone, and fork_or_sync under it
NextBatch ==
    \/ MainUserClone
    \/ MainDone
    \/ UCUnknownUser
    \/ UCList
    \/ UCNext
    \/ UCReturn
    \/ FSResolve
    \/ FSSyncOk
    \/ FSSyncFails
    \/ FSForkOk
    \/ FSForkFails
    \/ FSWait
    \/ FSReforkOk
    \/ FSReforkFails
    \/ MaybeSleep
    \/ AfterSleep

SpecBatch == InitBatch /\ [][NextBatch]_vars

\* the decisions printed so far for the source repository `name`
Decisions(name) ==
    Cardinality({n \in 1..Len(console) :
                   console[n].ev = "decision" /\ console[n].src = name})

\* filter_repos keeps the repository under the flags of the run
KeptByFlags(repo) ==
    FilterOne(repo, flags.include_private, flags.include_forks,
              flags.include_dot_github) = "keep"

\* the invocations of fork_or_sync due for `repo` by the first `upto` SOURCE
\* arguments: one for each that names its account, if it is kept, and one
\* for each that names the repository itself
Due(repo, upto) ==
    Cardinality({j \in 1..upto : source[j] = Acme /\ KeptByFlags(repo)})
        + Cardinality({j \in 1..upto : source[j] = repo.full_name})

InQueue(repo) == \E n \in 1..Len(queue) : queue[n] = repo

\* no remote call has failed
NoFailure == faults = 0 /\ raised = "none"

\* between two repositories of user_clone, and back in main, every listed
\* repository was handled as often as is due
HandledAsDue ==
    NoFailure =>
        /\ pc = "main" =>
              \A n \in 1..Len(ReposOf(Acme)) :
                 Decisions(ReposOf(Acme)[n].full_name) = Due(ReposOf(Acme)[n], k)
        /\ pc = "uc_loop" =>
              /\ \A n \in 1..Len(queue) : KeptByFlags(queue[n])
              /\ \A a, b \in 1..Len(queue) : a # b => queue[a] # queue[b]
              /\ \A n \in 1..Len(ReposOf(source[k])) :
                    LET r == ReposOf(source[k])[n]
                    IN  Decisions(r.full_name) =
                            Due(r, k - 1)
                            + (IF KeptByFlags(r) /\ ~InQueue(r) THEN 1 ELSE 0)

\* fork_or_sync is at work for user_clone
InHand == pc \in {"fs_resolve", "fs_sync", "fs_fork", "fs_wait", "fs_refork"} /\ fs.caller = "uc"

=============================================================================
